---- MODULE Spec2Model ----
(***************************************************************************)
(* OpenLUR: greedy forward feature selection (LUR_osm/hoek.py), the        *)
(* time-bounded random search of one fold (RF_randomsearch.py) and the     *)
(* repeated k-fold cross-validation drivers built on a process pool        *)
(* (RF_randomsearch.py, Models/SklearnWrapper.py,                          *)
(* Hasenfratz/Hasenfratz_r_parallel.py).                                   *)
(*                                                                         *)
(* Four specifications share the module:                                  *)
(*   SpecFit     one Regressor object: fit, predict, score, adj_score      *)
(*   SpecSearch  main's option parsing and one randomSearchFold task       *)
(*   SpecCV      the drivers: building the fold inputs, pool.map, summary  *)
(*   SpecKFold   the drivers' input-building loops over every shuffle      *)
(***************************************************************************)
EXTENDS Integers, Sequences, FiniteSets, TLC

(***************************************************************************)
(* Bounds of the model.                                                    *)
(***************************************************************************)
\* largest number of columns of a feature matrix handed to fit or predict
MaxFeatures == 3
\* number of times fit is called on one Regressor object
MaxFits == 2
\* largest number of rows of a y vector handed to adj_score
MaxSamples == 3

(***************************************************************************)
(* Python floats.  An in-sample R^2 is a double; the model draws it from   *)
(* the doubles nearest to c/100 for c in R2Vals and names each by c.       *)
(* DoubleErr(c) is the exact rounding error of that double,                *)
(*     double(c/100) = (c * 2^59 + DoubleErr(c)) / (100 * 2^59),           *)
(* so that r2 - r2prev, which is exact for every pair of these doubles,    *)
(* is the pair <<c1 - c2, DoubleErr(c1) - DoubleErr(c2)>>.                 *)
(***************************************************************************)
R2Vals == {0, 50, 52, 53, 56, 57}

DoubleErr(c) ==
    CASE c = 0  -> 0
      [] c = 1  -> 12
      [] c = 50 -> 0
      [] c = 52 -> 1024
      [] c = 53 -> 1536
      [] c = 56 -> 3072
      [] c = 57 -> -2816
      [] c = 10000 -> 0
      [] OTHER -> 0     \* no other value is drawn

\* the float c/100 as a difference from 0.0
Float(c) == <<c, DoubleErr(c)>>

\* r2 - r2prev (line 43), both doubles named by their hundredths
FloatSub(a, b) == <<a - b, DoubleErr(a) - DoubleErr(b)>>

\* d > 0.01 for a float difference d (lines 30 and 47)
GtThreshold(d) == d[1] > 1 \/ (d[1] = 1 /\ d[2] > DoubleErr(1))

(***************************************************************************)
(* Sequence helpers: Python list operations used by fit.                   *)
(***************************************************************************)
\* [i for i in range(n)]
Range0(n) == [i \in 1..n |-> i - 1]

\* max(scores)
Max(s) == CHOOSE m \in {s[i] : i \in 1..Len(s)} : \A i \in 1..Len(s) : s[i] <= m

\* scores.index(r2): the first position holding r2
Index(s, v) == CHOOSE i \in 1..Len(s) : s[i] = v /\ \A j \in 1..(i - 1) : s[j] # v

\* a pop that leaves the list as it was
MutPop(s, i) == s

\* list.pop(i)
Pop(s, i) == [j \in 1..(Len(s) - 1) |-> IF j < i THEN s[j] ELSE s[j + 1]]

VARIABLES
    \* the Regressor object
    total_features,     \* self.total_features, -1 before the first fit
    features,           \* self.features
    regressionModel,    \* self.regressionModel: [state, cols]
    \* the frame of the running fit call
    fit_pc,             \* "idle", "loop", "returned", "raised"
    fit_error,          \* the exception a raised call ended in, "" otherwise
    features_to_test,
    chosen_features,
    dr2,
    r2prev,
    r2_trace,           \* every value r2prev has taken in this call
    monotone,           \* no score of this call was below the chosen subset's
    fits,               \* number of fit calls made so far
    \* the last predict / score / adj_score call
    call,
    \* RF_randomsearch.py: the command line, the module and main
    args,               \* the parsed options: [refit, time]
    refit,              \* the module's global refit (line 37)
    main_refit,         \* main's local refit (line 111), "unset" before
    \* one randomSearchFold task
    search_pc,          \* "main", "ready", "loop", "after", "done"
    elapsed,            \* time.time() - starttime at the last reading
    bestModel,          \* 0 for None, else the candidate's number
    bestScore,
    numModels,
    evaluated,          \* the validation RMSE of every candidate, in order
    fold,               \* how the task ended: [outcome, fitted_on]
    \* the cross-validation drivers
    script,             \* which driver runs
    nrows,              \* rows of the dataset
    niter,              \* iterations of the k-fold scheme
    njobs,              \* processes of the pool, 0 before it is created
    cv_pc,              \* "build", "built", "mapping", "done", "aborted"
    inputs,             \* the list of fold inputs
    next_task,          \* position in inputs of the next task to hand out
    running,            \* positions of the tasks the workers are running
    map_ok,             \* no task of this map has raised
    map_value,          \* the result list pool.map is filling
    results,            \* the rows of the results DataFrame
    summary             \* number of records the means are taken over, -1 before

fitVars == <<total_features, features, regressionModel, fit_pc, fit_error, features_to_test,
             chosen_features, dr2, r2prev, r2_trace, monotone, fits, call>>

searchVars == <<args, refit, main_refit, search_pc, elapsed, bestModel, bestScore,
                numModels, evaluated, fold>>

cvVars == <<script, nrows, niter, njobs, cv_pc, inputs, next_task, running, map_ok,
            map_value, results, summary>>

NoModel == [state |-> "None", cols |-> <<>>]
NoCall == [method |-> "none", width |-> 0, X_predict |-> <<>>, outcome |-> "none"]

\* Regressor.__init__
InitRegressor ==
    /\ total_features = -1
    /\ features = <<>>
    /\ regressionModel = NoModel
    /\ fit_pc = "idle"
    /\ fit_error = ""
    /\ features_to_test = <<>>
    /\ chosen_features = <<>>
    /\ dr2 = Float(0)
    /\ r2prev = 0
    /\ r2_trace = <<>>
    /\ monotone = TRUE
    /\ fits = 0
    /\ call = NoCall

\* fit, lines 21-28: entry of the call on a matrix with n columns
FitBegin ==
    /\ fit_pc # "loop"
    /\ fits < MaxFits
    /\ \E n \in 0..MaxFeatures :
        /\ total_features' = n
        /\ features_to_test' = Range0(n)
    /\ chosen_features' = <<>>
    /\ dr2' = Float(10000)
    /\ r2prev' = 0
    /\ r2_trace' = <<0>>
    /\ monotone' = TRUE
    /\ fits' = fits + 1
    /\ fit_pc' = "loop"
    /\ fit_error' = ""
    /\ call' = NoCall
    /\ UNCHANGED <<features, regressionModel>>
    /\ UNCHANGED <<searchVars, cvVars>>

\* r2prev = dr2 in place of r2prev = r2
MutNextR2Prev(r2, prev) == r2 - prev

\* the value r2prev takes on a pass (line 44)
NextR2Prev(r2, prev) == r2

\* whether a pass goes on to choose the best feature (line 47)
Accept(d) == GtThreshold(d)

\* the locals of a fit call that has returned or raised are gone
FrameGone ==
    /\ features_to_test' = <<>>
    /\ chosen_features' = <<>>
    /\ dr2' = Float(0)
    /\ r2prev' = 0
    /\ r2_trace' = <<>>
    /\ monotone' = TRUE

\* fit, lines 30-49: one pass of the while loop.  Every subset is scored at
\* most once in a call, so its R^2 is drawn when the pass scores it.
FitPass ==
    /\ fit_pc = "loop"
    /\ GtThreshold(dr2)
    /\ IF features_to_test = <<>>
       THEN \* max([]) raises ValueError
            /\ fit_pc' = "raised"
            /\ fit_error' = "ValueError: max() arg is an empty sequence"
            /\ FrameGone
       ELSE \E sc \in [1..Len(features_to_test) -> R2Vals] :
              LET r2 == Max(sc)
                  d == FloatSub(r2, r2prev)
                  best == Index(sc, r2)
              IN /\ dr2' = d
                 /\ r2prev' = NextR2Prev(r2, r2prev)
                 /\ r2_trace' = Append(r2_trace, r2prev')
                 /\ monotone' = (monotone /\ \A i \in 1..Len(sc) : sc[i] >= r2prev)
                 /\ IF Accept(d)
                    THEN /\ chosen_features' = Append(chosen_features, features_to_test[best])
                         /\ features_to_test' = Pop(features_to_test, best)
                    ELSE UNCHANGED <<features_to_test, chosen_features>>
                 /\ fit_pc' = "loop"
                 /\ fit_error' = ""
    /\ UNCHANGED <<total_features, features, regressionModel, fits, call>>
    /\ UNCHANGED <<searchVars, cvVars>>

\* fit, lines 54-57: the loop has ended; LinearRegression.fit refuses a
\* matrix with no column (ValueError) after the object has been assigned
FitFinish ==
    /\ fit_pc = "loop"
    /\ ~GtThreshold(dr2)
    /\ features' = chosen_features
    /\ IF chosen_features = <<>>
       THEN /\ regressionModel' = [state |-> "unfitted", cols |-> <<>>]
            /\ fit_pc' = "raised"
            /\ fit_error' = "ValueError: Found array with 0 feature(s)"
       ELSE /\ regressionModel' = [state |-> "fitted", cols |-> chosen_features]
            /\ fit_pc' = "returned"
            /\ fit_error' = ""
    /\ FrameGone
    /\ UNCHANGED <<total_features, fits, call>>
    /\ UNCHANGED <<searchVars, cvVars>>

(***************************************************************************)
(* predict, score and adj_score.  X is the caller's matrix with `width`    *)
(* columns; X_predict lists, by their 0-based position in X, the columns   *)
(* handed to the fitted linear model, in order.                            *)
(***************************************************************************)
\* X[:, self.features]
Project(width) == features

\* X used as it is
Unprojected(width) == Range0(width)

\* lines 61-64, 68-71, 75-78: the test that selects the projection
TakesProjection(width) == width = total_features

\* the X_predict of lines 61-64, 68-71 and 75-78
SelectX(width) == IF TakesProjection(width) THEN Project(width) ELSE Unprojected(width)

\* what the shared part of the three methods ends in: the attribute read of
\* line 61, numpy's bounds check of X[:, self.features], then the call into
\* self.regressionModel
ModelCallOutcome(width) ==
    IF total_features = -1 THEN "AttributeError"
    ELSE IF TakesProjection(width) /\ \E i \in 1..Len(features) : features[i] >= width
         THEN "IndexError"
    ELSE IF regressionModel.state = "None" THEN "AttributeError"
    ELSE IF regressionModel.state = "unfitted" THEN "NotFittedError"
    ELSE IF Len(SelectX(width)) # Len(regressionModel.cols) THEN "ValueError"
    ELSE "ok"

MethodCall(method, width, n) ==
    LET o == ModelCallOutcome(width)
    IN [method |-> method,
        width |-> width,
        X_predict |-> IF total_features # -1 /\ o # "IndexError"
                      THEN SelectX(width) ELSE <<>>,
        outcome |-> IF method = "adj_score" /\ o = "ok" /\ n - Len(features) - 1 = 0
                    THEN "ZeroDivisionError" ELSE o]

\* predict, lines 60-65
Predict ==
    /\ fit_pc # "loop"
    /\ \E width \in 0..MaxFeatures : call' = MethodCall("predict", width, 0)
    /\ UNCHANGED <<total_features, features, regressionModel, fit_pc, fit_error,
                   features_to_test,
                   chosen_features, dr2, r2prev, r2_trace, monotone, fits>>
    /\ UNCHANGED <<searchVars, cvVars>>

\* score, lines 67-72
Score ==
    /\ fit_pc # "loop"
    /\ \E width \in 0..MaxFeatures : call' = MethodCall("score", width, 0)
    /\ UNCHANGED <<total_features, features, regressionModel, fit_pc, fit_error,
                   features_to_test,
                   chosen_features, dr2, r2prev, r2_trace, monotone, fits>>
    /\ UNCHANGED <<searchVars, cvVars>>

\* adj_score, lines 74-81, on a y vector of n rows
AdjScore ==
    /\ fit_pc # "loop"
    /\ \E width \in 0..MaxFeatures, n \in 1..MaxSamples :
          call' = MethodCall("adj_score", width, n)
    /\ UNCHANGED <<total_features, features, regressionModel, fit_pc, fit_error,
                   features_to_test,
                   chosen_features, dr2, r2prev, r2_trace, monotone, fits>>
    /\ UNCHANGED <<searchVars, cvVars>>

NextFit == FitBegin \/ FitPass \/ FitFinish \/ Predict \/ Score \/ AdjScore

(***************************************************************************)
(* RF_randomsearch.py: the refit option and one fold's random search.      *)
(***************************************************************************)
\* largest -t value drawn, in seconds
MaxTime == 2
\* largest time, in seconds, between two readings of the clock
MaxStep == 2
\* largest number of candidates one search evaluates
MaxModels == 3

\* line 74
InitialBestScore == 1000000

\* validation RMSE values a candidate may score
RMSEVals == {3, 5, InitialBestScore, InitialBestScore + 500000}

NoFold == [outcome |-> "none", fitted_on |-> "none"]

\* the module as imported (lines 36-37), no fold task running
SearchIdle ==
    /\ args = [refit |-> FALSE, time |-> 0]
    /\ refit = FALSE
    /\ main_refit = "unset"
    /\ search_pc = "main"
    /\ elapsed = 0
    /\ bestModel = 0
    /\ bestScore = 0
    /\ numModels = 0
    /\ evaluated = <<>>
    /\ fold = NoFold

\* the module as imported (lines 36-37) and the command line given
InitSearch ==
    /\ args \in [refit : BOOLEAN, time : 0..MaxTime]
    /\ refit = FALSE
    /\ main_refit = "unset"
    /\ search_pc = "main"
    /\ elapsed = 0
    /\ bestModel = 0
    /\ bestScore = 0
    /\ numModels = 0
    /\ evaluated = <<>>
    /\ fold = NoFold

\* the module global after main's assignment of line 111: main has no
\* global statement, so the name it assigns is its own local
GlobalAfterMainAssigns(g, option) == g

\* main, lines 109-111
ParseArgs ==
    /\ search_pc = "main"
    /\ main_refit' = args.refit
    /\ refit' = GlobalAfterMainAssigns(refit, args.refit)
    /\ search_pc' = "ready"
    /\ UNCHANGED <<args, elapsed, bestModel, bestScore, numModels, evaluated, fold>>
    /\ UNCHANGED <<fitVars, cvVars>>

\* randomSearchFold, lines 59-75, in a worker of the pool
FoldStart ==
    /\ search_pc = "ready"
    /\ elapsed' = 0
    /\ bestModel' = 0
    /\ bestScore' = InitialBestScore
    /\ numModels' = 0
    /\ evaluated' = <<>>
    /\ search_pc' = "loop"
    /\ UNCHANGED <<args, refit, main_refit, fold>>
    /\ UNCHANGED <<fitVars, cvVars>>

\* line 81: whether a candidate replaces the kept one
Better(score, best) == score < best

\* randomSearchFold, lines 77-83: the clock is read; within the budget one
\* candidate is fitted and scored, else the loop ends
SearchStep ==
    /\ search_pc = "loop"
    /\ \E now \in elapsed..(elapsed + MaxStep) :
        /\ elapsed' = now
        /\ IF now < args.time
           THEN /\ numModels < MaxModels
                /\ \E score \in RMSEVals :
                    /\ evaluated' = Append(evaluated, score)
                    /\ numModels' = numModels + 1
                    /\ IF Better(score, bestScore)
                       THEN bestModel' = numModels + 1 /\ bestScore' = score
                       ELSE UNCHANGED <<bestModel, bestScore>>
                /\ search_pc' = "loop"
           ELSE /\ search_pc' = "after"
                /\ UNCHANGED <<bestModel, bestScore, numModels, evaluated>>
    /\ UNCHANGED <<args, refit, main_refit, fold>>
    /\ UNCHANGED <<fitVars, cvVars>>

\* what lines 85-95 end in: bestModel.fit (when refit) or
\* bestModel.get_params() on None raises AttributeError
FoldOutcome(best, r) ==
    IF best = 0 THEN [outcome |-> "AttributeError", fitted_on |-> "none"]
    ELSE [outcome |-> "metrics",
          fitted_on |-> IF r THEN "search-fit+validation" ELSE "search-fit"]

\* randomSearchFold, lines 85-95
FoldFinish ==
    /\ search_pc = "after"
    /\ fold' = FoldOutcome(bestModel, refit)
    /\ search_pc' = "done"
    /\ UNCHANGED <<args, refit, main_refit, elapsed, bestModel, bestScore, numModels,
                   evaluated>>
    /\ UNCHANGED <<fitVars, cvVars>>

NextSearch == ParseArgs \/ FoldStart \/ SearchStep \/ FoldFinish

(***************************************************************************)
(* The cross-validation drivers: RF_randomsearch.main,                     *)
(* SklearnWrapper.test_model and the main block of Hasenfratz_r_parallel.   *)
(***************************************************************************)
\* KFold(n_splits=10) in the three drivers; the model runs the same scheme
\* with fewer folds
n_splits == 2
\* largest dataset, in rows
MaxRows == 4
\* largest number of iterations (Hasenfratz_r_parallel.py fixes 40)
MaxIter == 2
\* largest number of pool processes
MaxJobs == 2

Scripts == {"RF_randomsearch", "SklearnWrapper", "Hasenfratz"}

\* rows are named by their position, 0-based; row r lies in grid cell r
Rows(n) == 0..(n - 1)

\* model_var holds one row per grid cell: the cells of the measurements and
\* one cell without a measurement
ModelVarKeys(n) == 0..n

\* the outcomes of rng.shuffle(indices) on n rows: perm[j] is the row at
\* position j (0-based) of the shuffled indices
Shuffles(n) == Permutations(Rows(n))

\* np.arange(n), the order kept
Unshuffled(n) == {[j \in Rows(n) |-> j]}

\* KFold: fold f (0-based) takes n // n_splits rows, one more for each of the
\* first n % n_splits folds
FoldSize(n, f) == (n \div n_splits) + (IF f < n % n_splits THEN 1 ELSE 0)

\* KFold: where fold f starts, the sizes of the folds before it summed
FoldOffset(n, f) == f * (n \div n_splits) + (IF f < n % n_splits THEN f ELSE n % n_splits)

\* indices[start:stop] one position too long
MutTestIndex(perm, n, f) ==
    {perm[j] : j \in FoldOffset(n, f)..
                     (IF FoldOffset(n, f) + FoldSize(n, f) < n
                      THEN FoldOffset(n, f) + FoldSize(n, f)
                      ELSE n - 1)}

\* KFold: test_index of fold f, indices[start:stop] of the shuffled rows
TestIndex(perm, n, f) ==
    {perm[j] : j \in FoldOffset(n, f)..(FoldOffset(n, f) + FoldSize(n, f) - 1)}

\* KFold: train_index of fold f, the rows outside the test mask
TrainIndex(perm, n, f) == Rows(n) \ TestIndex(perm, n, f)

\* Hasenfratz_r_parallel.py lines 122-127: the rows of model_var whose (x, y)
\* is not the (x, y) of a training row
AntiJoin(n, train) == {k \in ModelVarKeys(n) : k \notin train}

\* the tuple appended for fold f of iteration i
FoldInput(perm, n, i, f) ==
    [iteration |-> i,
     fold |-> f,
     train |-> TrainIndex(perm, n, f),
     test |-> TestIndex(perm, n, f),
     test_model_var |-> IF script = "Hasenfratz"
                        THEN AntiJoin(n, TrainIndex(perm, n, f)) ELSE {}]

\* the last fold of every iteration left out
MutFoldsOfIteration == [f \in 1..(n_splits - 1) |-> f - 1]

\* the folds an iteration appends, in order
FoldsOfIteration == [f \in 1..n_splits |-> f - 1]

CVIdle ==
    /\ script = "RF_randomsearch"
    /\ nrows = 0
    /\ niter = 0
    /\ njobs = 0
    /\ cv_pc = "idle"
    /\ inputs = <<>>
    /\ next_task = 0
    /\ running = {}
    /\ map_ok = TRUE
    /\ map_value = <<>>
    /\ results = <<>>
    /\ summary = -1

\* a driver started on a dataset, before its loop over the iterations
InitCV ==
    /\ script \in Scripts
    /\ nrows \in (n_splits - 1)..MaxRows
    /\ niter \in 1..MaxIter
    /\ njobs = 0
    /\ cv_pc = "build"
    /\ inputs = <<>>
    /\ next_task = 0
    /\ running = {}
    /\ map_ok = TRUE
    /\ map_value = <<>>
    /\ results = <<>>
    /\ summary = -1

\* one iteration of the outer loop (RF_randomsearch.py 117-123,
\* SklearnWrapper.py 30-41, Hasenfratz_r_parallel.py 114-130): a fresh
\* shuffle, one input per fold.  KFold.split raises ValueError on fewer
\* rows than folds.
BuildIteration(shuffles) ==
    /\ cv_pc = "build"
    /\ IF nrows < n_splits
       THEN /\ cv_pc' = "aborted"
            /\ UNCHANGED inputs
       ELSE \E perm \in shuffles :
              LET i == Len(inputs) \div n_splits
              IN /\ inputs' = inputs \o [f \in 1..Len(FoldsOfIteration) |->
                                           FoldInput(perm, nrows, i, FoldsOfIteration[f])]
                 /\ cv_pc' = IF i + 1 = niter THEN "built" ELSE "build"
    /\ UNCHANGED <<script, nrows, niter, njobs, next_task, running, map_ok, map_value,
                   results, summary>>
    /\ UNCHANGED <<fitVars, searchVars>>

NoResult == [iteration |-> -1, fold |-> -1]

\* the metrics record the task of an input returns
Record(input) == [iteration |-> input.iteration, fold |-> input.fold]

\* the pool is created with the number of processes asked for and pool.map
\* is called: every input becomes a task of the pool's queue
MapCall ==
    /\ cv_pc = "built"
    /\ njobs' \in 1..MaxJobs
    /\ cv_pc' = "mapping"
    /\ next_task' = 1
    /\ running' = {}
    /\ map_ok' = TRUE
    /\ map_value' = [t \in 1..Len(inputs) |-> NoResult]
    /\ UNCHANGED <<script, nrows, niter, inputs, results, summary>>
    /\ UNCHANGED <<fitVars, searchVars>>

\* a free worker takes the next task of the queue
WorkerTake ==
    /\ cv_pc = "mapping"
    /\ next_task <= Len(inputs)
    /\ Cardinality(running) < njobs
    /\ running' = running \cup {next_task}
    /\ next_task' = next_task + 1
    /\ UNCHANGED <<script, nrows, niter, njobs, cv_pc, inputs, map_ok, map_value,
                   results, summary>>
    /\ UNCHANGED <<fitVars, searchVars>>

\* a worker's task returns its record or raises; the map keeps the records
\* while no task has raised, and the first exception from then on
WorkerFinish ==
    /\ cv_pc = "mapping"
    /\ \E t \in running, ok \in BOOLEAN :
        /\ running' = running \ {t}
        /\ IF ok /\ map_ok
           THEN /\ map_value' = [map_value EXCEPT ![t] = Record(inputs[t])]
                /\ UNCHANGED map_ok
           ELSE /\ map_ok' = FALSE
                /\ map_value' = <<>>
    /\ UNCHANGED <<script, nrows, niter, njobs, cv_pc, inputs, next_task, results,
                   summary>>
    /\ UNCHANGED <<fitVars, searchVars>>

\* pool.map is ready once every task has been handed out and has ended
AllReturned == next_task > Len(inputs) /\ running = {}

\* pool.map returns the list, or raises the exception it kept; the driver
\* wraps the list in a DataFrame and takes the column means
MapReturn ==
    /\ cv_pc = "mapping"
    /\ AllReturned
    /\ IF map_ok
       THEN /\ results' = map_value
            /\ summary' = Len(map_value)
            /\ cv_pc' = "done"
       ELSE /\ cv_pc' = "aborted"
            /\ UNCHANGED <<results, summary>>
    /\ UNCHANGED <<script, nrows, niter, njobs, inputs, next_task, running, map_ok,
                   map_value>>
    /\ UNCHANGED <<fitVars, searchVars>>

NextCV ==
    \/ BuildIteration(Unshuffled(nrows))
    \/ MapCall
    \/ WorkerTake
    \/ WorkerFinish
    \/ MapReturn

NextKFold == BuildIteration(Shuffles(nrows))

vars == <<fitVars, searchVars, cvVars>>

InitFit == InitRegressor /\ SearchIdle /\ CVIdle

InitSearchSpec == InitRegressor /\ InitSearch /\ CVIdle

InitCVSpec == InitRegressor /\ SearchIdle /\ InitCV

\* one Regressor object and the calls made on it
SpecFit == InitFit /\ [][NextFit]_vars

\* main's option parsing and one fold task of RF_randomsearch.py
SpecSearch == InitSearchSpec /\ [][NextSearch]_vars

\* a driver from its first iteration to its summary, the shuffle held at the
\* identity: the rows of a fold play no part in the pool
SpecCV == InitCVSpec /\ [][NextCV]_vars

\* the input-building loop of a driver over every shuffle
SpecKFold == InitCVSpec /\ [][NextKFold]_vars

(***************************************************************************)
(* Properties of SpecFit.                                                  *)
(***************************************************************************)
IsNonDecreasing(s) == \A i \in 1..(Len(s) - 1) : s[i] <= s[i + 1]

\* C1: a fit call on a matrix with at least one column never ends in an
\* exception for want of features to test: when the loop has chosen every
\* feature it ends, and fit returns with a model fitted on them.
C1_FitReturnsNormally ==
    (total_features >= 1 /\ fit_pc = "raised")
        => fit_error # "ValueError: max() arg is an empty sequence"

\* C7: with 3 features whose best scores on successive passes are 0.50,
\* 0.52 and 0.53, the third pass (gain 0.01) adds nothing and ends the
\* loop, so that exactly two features are chosen.
C7_StopsAtGainOfOneHundredth ==
    (fit_pc = "loop" /\ total_features = 3 /\ monotone /\ r2_trace = <<0, 50, 52, 53>>)
        => (Len(chosen_features) = 2 /\ ~GtThreshold(dr2))

\* C8: when no score is below the score of the subset it extends, the
\* values r2prev takes during a fit call never decrease, the value of the
\* last pass included.
C8_R2PrevNonDecreasing == monotone => IsNonDecreasing(r2_trace)

\* C8 witness: a call on monotone scores whose last pass chose nothing
C8_Witness ==
    /\ fit_pc = "loop"
    /\ monotone
    /\ Len(r2_trace) = 4
    /\ r2_trace[4] > r2_trace[3]
    /\ ~GtThreshold(dr2)
    /\ Len(chosen_features) = 2

\* C6: on a fitted model, a call with a matrix of total_features columns
\* hands the model the chosen columns of X, and a call with a matrix of
\* len(features) columns hands it X itself, every column in place.
C6_ProjectionByWidth ==
    (call.method # "none" /\ call.outcome = "ok" /\ regressionModel.state = "fitted")
        => /\ (call.width = total_features /\ call.width # Len(features))
                => call.X_predict = features
           /\ call.width = Len(features) => call.X_predict = Range0(call.width)

(***************************************************************************)
(* Properties of SpecSearch.                                               *)
(***************************************************************************)
\* the earliest position holding the lowest value of a non-empty sequence
FirstArgMin(s) ==
    CHOOSE i \in 1..Len(s) :
        /\ \A j \in 1..Len(s) : s[i] <= s[j]
        /\ \A j \in 1..(i - 1) : s[j] > s[i]

\* C2: a fold task whose budget ran out before any candidate was fitted
\* ends in NoCandidateError and returns no metrics.
C2_NoCandidateError ==
    (search_pc = "done" /\ numModels = 0) => fold.outcome = "NoCandidateError"

\* C3: the fold task scores a model refit on the search-fit and validation
\* rows exactly when the caller gave the refit option, and the model as the
\* search fitted it otherwise.
C3_RefitAsConfigured ==
    (search_pc = "done" /\ fold.outcome = "metrics")
        => fold.fitted_on = (IF args.refit THEN "search-fit+validation" ELSE "search-fit")

OneInputPerPair ==
    /\ Len(inputs) = niter * n_splits
    /\ \A i \in 0..(niter - 1), f \in 0..(n_splits - 1) :
          Cardinality({t \in 1..Len(inputs) :
                          inputs[t].iteration = i /\ inputs[t].fold = f}) = 1

\* C4: a run in which some task raised still ends with a summary taken over
\* the records of the other tasks.
C4_TaskFailureDoesNotAbort ==
    (cv_pc \in {"done", "aborted"} /\ ~map_ok) => (cv_pc = "done" /\ summary >= 0)

\* C5: the driver builds one task per (iteration, fold) pair, niter * n_splits
\* in all; when no task raises, it goes on to the summary only after every
\* task has returned, holding exactly one record per task.
C5_OneRecordPerTask ==
    /\ cv_pc \in {"built", "mapping", "done"} => OneInputPerPair
    /\ cv_pc = "done" =>
          /\ AllReturned
          /\ Len(results) = niter * n_splits
          /\ \A t \in 1..Len(inputs) : results[t] = Record(inputs[t])
          /\ summary = niter * n_splits

\* C5 witness: a run of several iterations on several workers has ended with
\* its summary
C5_Witness ==
    /\ cv_pc = "done"
    /\ niter = MaxIter
    /\ njobs = MaxJobs
    /\ Len(results) = MaxIter * n_splits

\* the inputs of iteration i, once all its folds are appended
IterationInputs(i) == {t \in 1..Len(inputs) : inputs[t].iteration = i}

\* C9: in every iteration each row is a test row of exactly one fold; in
\* every fold input the train and the test rows are disjoint; and no row
\* taken from model_var lies in a grid cell of the fold's training rows.
C9_TestFoldsPartitionRows ==
    /\ \A i \in 0..((Len(inputs) \div n_splits) - 1), r \in Rows(nrows) :
          \E t \in IterationInputs(i) :
              /\ r \in inputs[t].test
              /\ \A u \in IterationInputs(i) : r \in inputs[u].test => u = t
    /\ \A t \in 1..Len(inputs) :
          /\ inputs[t].train \cap inputs[t].test = {}
          /\ inputs[t].test_model_var \cap inputs[t].train = {}

\* C9 witness: the Hasenfratz driver has built two iterations of unequal
\* folds on different shuffles, its model_var rows taken
C9_Witness ==
    /\ script = "Hasenfratz"
    /\ Len(inputs) = 2 * n_splits
    /\ Cardinality(inputs[1].test) = 2
    /\ inputs[1].test # inputs[n_splits + 1].test
    /\ inputs[1].test_model_var # {}

(***************************************************************************)
(* Greedy forward selection keeps the feature indices split in two.        *)
(***************************************************************************)
Elems(s) == {s[i] : i \in 1..Len(s)}

NoDuplicates(s) == \A i, j \in 1..Len(s) : s[i] = s[j] => i = j

\* chosen_features and features_to_test split 0..total_features-1
SplitsFeatures ==
    /\ NoDuplicates(chosen_features)
    /\ NoDuplicates(features_to_test)
    /\ Elems(chosen_features) \cap Elems(features_to_test) = {}
    /\ Elems(chosen_features) \cup Elems(features_to_test) = 0..(total_features - 1)

\* a pass leaves both lists alone or moves one feature to the end of the
\* chosen ones
MovesAtMostOne ==
    \/ UNCHANGED <<chosen_features, features_to_test>>
    \/ \E f \in Elems(features_to_test) :
          /\ chosen_features' = Append(chosen_features, f)
          /\ Elems(features_to_test') = Elems(features_to_test) \ {f}
          /\ Len(features_to_test') = Len(features_to_test) - 1

\* C11: while fit runs, the chosen features and the features still to test
\* are disjoint, hold no index twice and together are exactly
\* 0..total_features-1; a pass of the loop moves at most one feature from
\* the features to test to the chosen ones and none back; the features of
\* the model fit returns with hold no index twice and are at most
\* total_features many.
C11_SelectionSplitsFeatures ==
    /\ [](fit_pc = "loop" => SplitsFeatures)
    /\ [](fit_pc = "returned" =>
            /\ NoDuplicates(features)
            /\ Len(features) <= total_features
            /\ Elems(features) \subseteq 0..(total_features - 1))
    /\ [][(fit_pc = "loop" /\ fit_pc' = "loop") => MovesAtMostOne]_vars

\* a call on three columns has returned with two of them chosen
C11_Witness ==
    /\ fit_pc = "returned"
    /\ total_features = 3
    /\ Len(features) = 2
    /\ regressionModel.cols = features

====
